---- MODULE Spec2Model ----
(***************************************************************************)
(* Model of nifty50_ma_bot.py: the CandleAggregator class and the per-tick *)
(* body of trading_bot (candle update, moving-average entry condition,     *)
(* option lookup, buy, trailing stop, exit).                               *)
(*                                                                         *)
(* Units.  Times are naive local datetimes counted in whole seconds since  *)
(* midnight (microseconds are 0 in every modelled tick).  Prices are       *)
(* counted in units of 0.05 rupee (Unit == 20 per rupee); every tick, fill *)
(* and quote is a whole number of rupees, so x * 0.95 is an exact integer  *)
(* and the comparisons of the code are modelled without rounding.          *)
(***************************************************************************)
EXTENDS Integers, Sequences, FiniteSets, TLC

VARIABLES
    current_candle_start,   \* CandleAggregator.current_candle_start
    candle_data,            \* CandleAggregator.candle_data: <<tick_time, price>>
    completed_candles,      \* CandleAggregator.completed_candles
    traded_candle,          \* trading_bot local
    bought_option_id,       \* trading_bot local
    entry_price,            \* trading_bot local
    sl_price,               \* trading_bot local
    max_price,              \* trading_bot local
    paper_mode,             \* trading_bot parameter
    ev,                     \* observation of the last processed tick
    entered_at,             \* observation: candle timestamps an entry was made on
    nchanges,               \* environment: price changes fed so far
    nlate,                  \* environment: out-of-order ticks fed so far
    running,                \* trading_bot has not returned or raised
    sent,                   \* frames sent on the websocket for the last message
    nticks,                 \* environment: ticks of the aggregation feed so far
    fold                    \* observation: the open and the last closed candle,
                            \* folded tick by tick

vars == <<current_candle_start, candle_data, completed_candles, traded_candle,
          bought_option_id, entry_price, sl_price, max_price, paper_mode,
          ev, entered_at, nchanges, nlate, running, sent, nticks, fold>>

----------------------------------------------------------------------------
\* Bounds of the exploration.

\* closed candles explored
MaxCandles == 22
\* ticks whose price differs from the tick before
MaxPriceChanges == 1
\* ticks whose time lies before the tick before
MaxLate == 1
\* ticks of the aggregation feed
MaxAggTicks == 5

\* Program constants.
IntervalMinutes == 5
MinCandles == 21
FastWindow == 10
SlowWindow == 21
StrikeInterval == 50
ItmDepth == 200
PaperStep == 1

\* Python's None, for the optional locals (times, prices and ids are >= 0).
None == -1
\* pandas' NaN, the value of a rolling mean over fewer rows than its window:
\* a mean is the pair <<sum, rows>>, and NaN is the mean of no rows.
NaN == <<0, 0>>

\* price units per rupee
Unit == 20
Rupees(n) == n * Unit

\* Inputs.
\* time of the first tick (09:15:00), and the gaps between consecutive ticks
StartTime == 9 * 3600 + 15 * 60
Steps == {150, 300}
LateStep == 0 - 300
\* ticks are explored out of order once this many candles have closed
LateFrom == MinCandles
\* the feed is flat while fewer than this many candles have closed: a price
\* change is explored at every place of the fast window and just before it
FlatCandles == MinCandles - FastWindow - 1
\* last traded prices of the spot feed
PriceSet == {Rupees(40), Rupees(50)}
\* traded prices of a filled buy order, and last prices of an option quote
FillSet == {Rupees(40), Rupees(50)}
QuoteSet == {Rupees(47), Rupees(50)}
\* the aggregation feed: gaps between ticks, and last traded prices
AggSteps == {75, 300}
AggPrices == {Rupees(99), Rupees(100), Rupees(101), Rupees(102)}
\* closes of the last closed candle handed to the strike computation: every
\* price from one strike to the next, near zero and near 19,800
SpotBases == {0, Rupees(19800)}
SpotPrices == {b + k : b \in SpotBases, k \in 0 .. Rupees(StrikeInterval)}
\* security ids found in the option chain
OptionIds == {7}
\* a gateway call that raised
Raised == -3

----------------------------------------------------------------------------
\* Helpers for Python built-ins.

RECURSIVE SumRange(_, _, _)
SumRange(col, lo, hi) == IF lo > hi THEN 0 ELSE col[hi] + SumRange(col, lo, hi - 1)

Max2(a, b) == IF a >= b THEN a ELSE b

Min2(a, b) == IF a <= b THEN a ELSE b

RECURSIVE MaxPrice(_)
MaxPrice(data) ==
    IF Len(data) = 1 THEN data[1][2]
    ELSE Max2(data[Len(data)][2], MaxPrice(SubSeq(data, 1, Len(data) - 1)))

RECURSIVE MinPrice(_)
MinPrice(data) ==
    IF Len(data) = 1 THEN data[1][2]
    ELSE Min2(data[Len(data)][2], MinPrice(SubSeq(data, 1, Len(data) - 1)))

\* truthiness of an optional number: None and 0 are falsy
Truthy(x) == x # None /\ x # 0

----------------------------------------------------------------------------
\* CandleAggregator

Minute(t) == (t \div 60) % 60

Second(t) == t % 60

\* update, lines 67-71
CandleStart(t) == t - ((Minute(t) % IntervalMinutes) * 60 + Second(t))

\* mutant of Candle: high and low taken from open and close alone
Candle_OpenClose(start, data) ==
    [timestamp |-> start,
     open      |-> data[1][2],
     high      |-> Max2(data[1][2], data[Len(data)][2]),
     low       |-> Min2(data[1][2], data[Len(data)][2]),
     close     |-> data[Len(data)][2]]

\* the OHLC dictionary built at lines 77-87 and 99-109
Candle(start, data) ==
    [timestamp |-> start,
     open      |-> data[1][2],
     high      |-> MaxPrice(data),
     low       |-> MinPrice(data),
     close     |-> data[Len(data)][2]]

\* mutant of Update: a closing candle takes the place of the last completed one
Update_Replaces(start, data, completed, t, p) ==
    LET cs == CandleStart(t) IN
    IF start # cs
    THEN [start     |-> cs,
          data      |-> <<<<t, p>>>>,
          completed |-> IF data = <<>> THEN completed
                        ELSE IF completed = <<>> THEN <<Candle(start, data)>>
                        ELSE [completed EXCEPT ![Len(completed)] = Candle(start, data)]]
    ELSE [start     |-> start,
          data      |-> Append(data, <<t, p>>),
          completed |-> completed]

\* update: the aggregator after one tick
Update(start, data, completed, t, p) ==
    LET cs == CandleStart(t) IN
    IF start # cs
    THEN [start     |-> cs,
          data      |-> <<<<t, p>>>>,
          completed |-> IF data # <<>>
                        THEN Append(completed, Candle(start, data))
                        ELSE completed]
    ELSE [start     |-> start,
          data      |-> Append(data, <<t, p>>),
          completed |-> completed]

\* get_candles_df: the completed candles and the current incomplete one
CandlesDf(start, data, completed) ==
    IF data # <<>> THEN Append(completed, Candle(start, data)) ELSE completed

----------------------------------------------------------------------------
\* Moving averages

\* mutant of DropLast: the incomplete candle is left in ma_df
DropLast_Keep(df) == df

\* candles_df.iloc[:-1]
DropLast(df) == SubSeq(df, 1, Len(df) - 1)

CloseColumn(df) == [i \in 1..Len(df) |-> df[i].close]

\* mutant of RollingMean: rolling(window, min_periods=1), the mean of the rows
\* there are
RollingMean_MinPeriods(col, window, i) ==
    IF i < window THEN <<SumRange(col, 1, i), i>>
    ELSE <<SumRange(col, i - window + 1, i), window>>

\* col.rolling(window).mean() at row i, as the pair <<sum, window>>; NaN
\* while fewer than window rows are available
RollingMean(col, window, i) ==
    IF i < window THEN NaN ELSE <<SumRange(col, i - window + 1, i), window>>

\* a >= b on rolling means; a comparison with NaN is False
MeanGE(a, b) ==
    /\ a # NaN
    /\ b # NaN
    /\ a[1] * b[2] >= b[1] * a[2]

\* the row of ma_df that line 198 reads: iloc[-1] with its ma10 and ma21
LastCandle(ma_df) ==
    LET i == Len(ma_df)
        col == CloseColumn(ma_df)
    IN [timestamp |-> ma_df[i].timestamp,
        close     |-> ma_df[i].close,
        ma10      |-> RollingMean(col, FastWindow, i),
        ma21      |-> RollingMean(col, SlowWindow, i)]

\* the crossover condition of line 205
Signal(last_candle) == MeanGE(last_candle.ma10, last_candle.ma21)

\* mutant of round_to_nearest_strike: rounds to the nearest strike
round_to_nearest_strike_Nearest(price) ==
    ((price + Rupees(StrikeInterval) \div 2) \div Rupees(StrikeInterval))
        * Rupees(StrikeInterval)

\* round_to_nearest_strike
round_to_nearest_strike(price) ==
    (price \div Rupees(StrikeInterval)) * Rupees(StrikeInterval)

\* lines 208-209
DeepItmStrike(spot_price) == round_to_nearest_strike(spot_price) - Rupees(ItmDepth)

----------------------------------------------------------------------------
\* Position: the locals traded_candle, bought_option_id, entry_price,
\* sl_price, max_price of trading_bot, as one record.

Position ==
    [traded |-> traded_candle, id |-> bought_option_id, entry |-> entry_price,
     sl |-> sl_price, max |-> max_price]

\* mutant of StopAt: the stop placed 5% above the price
StopAt_Above(price) == (price * 105) \div 100

\* x * 0.95
StopAt(price) == (price * 95) \div 100

\* lines 215-217: option not found, continue
OnOptionMissing(pos, ts) == pos

\* mutant of OnBuyFailed: the candle is marked traded although the buy raised
OnBuyFailed_Marks(pos, ts) == [pos EXCEPT !.traded = ts]

\* lines 238-240: the buy raised, continue
OnBuyFailed(pos, ts) == pos

\* lines 242-245
Enter(pos, ts, option_id, price) ==
    [traded |-> ts, id |-> option_id, entry |-> price,
     sl |-> StopAt(price), max |-> price]

\* line 248
InPosition(pos) == Truthy(pos.id) /\ Truthy(pos.entry) /\ Truthy(pos.sl)

\* mutant of PaperLtp: the simulated price falls by 3 rupees instead of 1
PaperLtp_Falls3(pos) ==
    IF pos.max * 100 < pos.entry * 102
    THEN pos.max + Rupees(PaperStep)
    ELSE pos.max - Rupees(3 * PaperStep)

\* line 253: the simulated option price of paper mode
PaperLtp(pos) ==
    IF pos.max * 100 < pos.entry * 102
    THEN pos.max + Rupees(PaperStep)
    ELSE pos.max - Rupees(PaperStep)

\* mutant of Trail: the peak follows the price, the stop is left behind
Trail_PeakOnly(pos, ltp) ==
    IF ltp > pos.max THEN [pos EXCEPT !.max = ltp] ELSE pos

\* lines 262-264
Trail(pos, ltp) ==
    IF ltp > pos.max
    THEN [pos EXCEPT !.max = ltp, !.sl = Max2(pos.sl, StopAt(ltp))]
    ELSE pos

\* line 269
StopHit(pos, ltp) == ltp <= pos.sl

\* lines 292-296, reached after a filled and after a failed sell alike
AfterExit(pos, sell) ==
    [pos EXCEPT !.id = None, !.entry = None, !.sl = None, !.max = None]

----------------------------------------------------------------------------
\* Observation of one processed tick: the branch the entry part took
\* ("waiting", "traded", "nosignal", "nooption", "buyfailed", "entered"),
\* whether a position was held when the tick arrived, whether that entry was
\* made on a candle timestamp entered before, the strike looked up, and what
\* the trailing stop part did ("none", "quotefailed", "kept", "paperexit",
\* "sold", "sellfailed").  It also keeps the spot price the strike was
\* computed from, the position as the trailing stop part found it at line 248
\* (NoPosition when that part found none), and the option price it saw.
NoMessage == [json |-> "<none>", has |-> {}, message |-> "<absent>",
              data |-> "<absent>", tick |-> "<none>"]

NoPosition == [traded |-> None, id |-> None, entry |-> None, sl |-> None, max |-> None]

Obs(path, held, again, strike, mgmt) ==
    [path |-> path, held |-> held, again |-> again, strike |-> strike, mgmt |-> mgmt,
     spot |-> None, pre |-> NoPosition, ltp |-> None, msg |-> NoMessage]

\* the state after one tick
Commit(agg, pos, e) ==
    /\ current_candle_start' = agg.start
    /\ candle_data' = agg.data
    /\ completed_candles' = agg.completed
    /\ traded_candle' = pos.traded
    /\ bought_option_id' = pos.id
    /\ entry_price' = pos.entry
    /\ sl_price' = pos.sl
    /\ max_price' = pos.max
    /\ ev' = e
    /\ UNCHANGED paper_mode

\* mutant of OnQuoteFailed: the position is dropped when the quote raises
OnQuoteFailed_Drops(pos) ==
    [pos EXCEPT !.id = None, !.entry = None, !.sl = None, !.max = None]

\* lines 257-260: the quote raised, sleep and continue
OnQuoteFailed(pos) == pos

\* lines 269-296: the stop was hit at price ltp
Exit(agg, pos, e, ltp) ==
    IF paper_mode
    THEN Commit(agg, AfterExit(pos, ltp), [e EXCEPT !.mgmt = "paperexit"])
    ELSE \E sell \in FillSet \cup {Raised} :
            Commit(agg, AfterExit(pos, sell),
                   [e EXCEPT !.mgmt = IF sell = Raised THEN "sellfailed" ELSE "sold"])

\* lines 262-296: the trailing stop at option price ltp
OnQuote(agg, pos, e, ltp) ==
    LET trailed == Trail(pos, ltp)
        el      == [e EXCEPT !.ltp = ltp]
    IN IF StopHit(trailed, ltp)
       THEN Exit(agg, trailed, el, ltp)
       ELSE Commit(agg, trailed, [el EXCEPT !.mgmt = "kept"])

\* lines 247-296: trailing stop management
Manage(agg, pos, e) ==
    IF ~InPosition(pos)
    THEN Commit(agg, pos, e)
    ELSE LET ep == [e EXCEPT !.pre = pos] IN
         IF paper_mode
         THEN OnQuote(agg, pos, ep, PaperLtp(pos))
         ELSE \E quote \in QuoteSet \cup {Raised} :
                 IF quote = Raised
                 THEN Commit(agg, OnQuoteFailed(pos), [ep EXCEPT !.mgmt = "quotefailed"])
                 ELSE OnQuote(agg, pos, ep, quote)

\* lines 206-245: the crossover condition holds at last_candle
Entry(agg, pos, e, last_candle) ==
    LET spot_price == last_candle.close
        ts         == last_candle.timestamp
        strike     == DeepItmStrike(spot_price)
        es         == [e EXCEPT !.strike = strike, !.spot = spot_price]
    IN \E option_id \in OptionIds \cup {None} :
          IF ~Truthy(option_id)
          THEN Commit(agg, OnOptionMissing(pos, ts), [es EXCEPT !.path = "nooption"])
          ELSE \E fill \in (IF paper_mode THEN {spot_price} ELSE FillSet \cup {Raised}) :
                  IF fill = Raised
                  THEN Commit(agg, OnBuyFailed(pos, ts), [es EXCEPT !.path = "buyfailed"])
                  ELSE Manage(agg, Enter(pos, ts, option_id, fill),
                              [es EXCEPT !.path = "entered",
                                         !.again = ts \in entered_at])

\* lines 183-296: the body of the loop over the ticks of a message
OnTick(t, p) ==
    LET agg  == Update(current_candle_start, candle_data, completed_candles, t, p)
        df   == CandlesDf(agg.start, agg.data, agg.completed)
        pos  == Position
        e    == Obs("waiting", Truthy(pos.id), FALSE, None, "none")
    IN IF Len(df) < MinCandles
          THEN Commit(agg, pos, e)
          ELSE LET last_candle == LastCandle(DropLast(df)) IN
               IF pos.traded = last_candle.timestamp
               THEN Commit(agg, pos, [e EXCEPT !.path = "traded"])
               ELSE IF Signal(last_candle)
                    THEN Entry(agg, pos, e, last_candle)
                    ELSE Manage(agg, pos, [e EXCEPT !.path = "nosignal"])

----------------------------------------------------------------------------
\* The feed: the first tick, then ticks at the gaps of Steps; an out-of-order
\* feed also delivers (after the warm-up) ticks stamped one interval earlier
\* than the tick before.

LastTick == candle_data[Len(candle_data)]

OrderedTimes ==
    IF candle_data = <<>> THEN {StartTime} ELSE {LastTick[1] + d : d \in Steps}

LateTimes ==
    IF candle_data # <<>> /\ nlate < MaxLate /\ Len(completed_candles) >= LateFrom
    THEN {LastTick[1] + LateStep} ELSE {}

\* one tick of the feed, with at most limit candles closed; record says
\* whether the candle timestamps of the entries are kept in entered_at
Feed(times, limit, record) ==
    \E t \in times, p \in PriceSet :
        LET late    == candle_data # <<>> /\ t < LastTick[1]
            changed == candle_data # <<>> /\ p # LastTick[2]
        IN /\ running
           /\ changed => /\ nchanges < MaxPriceChanges
                          /\ Len(completed_candles) >= FlatCandles
           /\ nchanges' = IF changed THEN nchanges + 1 ELSE nchanges
           /\ nlate' = IF late THEN nlate + 1 ELSE nlate
           /\ OnTick(t, p)
           /\ Len(completed_candles') <= limit
           /\ entered_at' = IF record /\ ev'.path = "entered"
                             THEN entered_at \cup {traded_candle'}
                             ELSE entered_at
           /\ sent' = <<>>
           /\ UNCHANGED <<running, nticks, fold>>

\* The aggregation feed: up to four ticks in a candle, at four prices.

NoCandle == [timestamp |-> None, open |-> None, high |-> None, low |-> None,
             close |-> None]

\* the interval boundary at or before t
Aligned(t) == t - (t % (IntervalMinutes * 60))

\* the candle folded tick by tick: a tick of another interval closes the
\* open candle and opens one with all four prices p; a tick of the same
\* interval raises high, lowers low and sets close
Fold(f, t, p) ==
    IF f.open = NoCandle \/ f.open.timestamp # Aligned(t)
    THEN [open   |-> [timestamp |-> Aligned(t), open |-> p, high |-> p,
                      low |-> p, close |-> p],
          closed |-> f.open]
    ELSE [open   |-> [f.open EXCEPT !.high = Max2(@, p), !.low = Min2(@, p),
                                    !.close = p],
          closed |-> f.closed]

AggFeed(times) ==
    \E t \in times, p \in AggPrices :
        /\ running
        /\ nticks < MaxAggTicks
        /\ nticks' = nticks + 1
        /\ nlate' = IF candle_data # <<>> /\ t < LastTick[1] THEN nlate + 1 ELSE nlate
        /\ OnTick(t, p)
        /\ fold' = Fold(fold, t, p)
        /\ sent' = <<>>
        /\ UNCHANGED <<running, nchanges, entered_at>>

\* a tick of the aggregation feed, in order
AggTick ==
    AggFeed(IF candle_data = <<>> THEN {StartTime}
            ELSE {LastTick[1] + d : d \in AggSteps})

\* a tick of the aggregation feed stamped one interval before its predecessor
AggLateTick ==
    AggFeed(IF candle_data # <<>> /\ nlate < MaxLate
            THEN {LastTick[1] + LateStep} ELSE {})

\* Inbound frames other than a list of well-formed ticks, as json.loads
\* leaves them: json is the type of the parsed value ("invalid" when it does
\* not parse), has the keys the test `key in msg` finds, message and data
\* the values under those keys ("<number>", "<null>", "<string>", "<ticks>"
\* name the type of a value, anything else is the string itself), tick the
\* defect of the elements of data.

Frame(field, value) == [field |-> field, value |-> value]

Message(json, has, message, data, tick) ==
    [json |-> json, has |-> has, message |-> message, data |-> data, tick |-> tick]

MessageValues == {"<number>", "<null>", "ping", "pong", "PONG", "subscribed"}
DataValues == {"<number>", "<null>", "<string>"}
BadTicks == {"notdict", "notime", "noprice", "badtime", "badprice"}

Keys(message, data) ==
    (IF message = "<absent>" THEN {} ELSE {"message"})
        \cup (IF data = "<absent>" THEN {} ELSE {"data"})

Messages ==
    {Message("invalid", {}, "<absent>", "<absent>", "<none>")}
    \cup {Message(j, {}, "<absent>", "<absent>", "<none>") : j \in {"number", "null"}}
    \cup {Message(j, h, "<absent>", "<absent>", "<none>") :
              j \in {"array", "string"}, h \in {{}, {"message"}, {"data"}}}
    \cup {Message("object", Keys(m, "<absent>"), m, "<absent>", "<none>") :
              m \in MessageValues \cup {"<absent>"}}
    \cup {Message("object", Keys("<absent>", d), "<absent>", d, "<none>") :
              d \in DataValues}
    \cup {Message("object", Keys(m, "<ticks>"), m, "<ticks>", k) :
              m \in {"<absent>", "ping"}, k \in BadTicks}

\* str.lower
Lower(str) == IF str = "PONG" THEN "pong" ELSE str

\* lines 155-181 and 299 for one such frame: "raised" when a statement outside
\* the two try blocks raises, "answered" when a frame is sent back
Receive(m) ==
    IF m.json = "invalid" THEN "skipped"
    ELSE IF m.json \in {"number", "null"} THEN "raised"
    ELSE IF "message" \in m.has
    THEN IF m.json # "object" \/ m.message \in {"<number>", "<null>"} THEN "raised"
         ELSE IF Lower(m.message) = "pong" THEN "answered"
         ELSE "skipped"
    ELSE IF "data" \notin m.has THEN "skipped"
    ELSE IF m.json # "object" \/ m.data \in {"<number>", "<null>"} THEN "raised"
    ELSE "skipped"

\* one inbound frame that carries no well-formed tick
OnMessage ==
    \E m \in Messages :
        /\ running
        /\ running' = (Receive(m) # "raised")
        /\ sent' = IF Receive(m) = "answered" THEN <<Frame("action", "pong")>> ELSE <<>>
        /\ ev' = [Obs("message", InPosition(Position), FALSE, None, "none")
                     EXCEPT !.msg = m]
        /\ UNCHANGED <<current_candle_start, candle_data, completed_candles,
                       traded_candle, bought_option_id, entry_price, sl_price,
                       max_price, paper_mode, entered_at, nchanges, nlate,
                       nticks, fold>>

\* the connection closes or fails: the async for ends or raises, trading_bot
\* is left and main returns
Disconnect ==
    /\ running
    /\ running' = FALSE
    /\ sent' = <<>>
    /\ ev' = Obs("disconnect", InPosition(Position), FALSE, None, "none")
    /\ UNCHANGED <<current_candle_start, candle_data, completed_candles,
                   traded_candle, bought_option_id, entry_price, sl_price,
                   max_price, paper_mode, entered_at, nchanges, nlate,
                   nticks, fold>>

\* the process is started again, after it ended or was killed: lines 141-151
Restart ==
    /\ ev.path # "restart"
    /\ current_candle_start' = None
    /\ candle_data' = <<>>
    /\ completed_candles' = <<>>
    /\ traded_candle' = None
    /\ bought_option_id' = None
    /\ entry_price' = None
    /\ sl_price' = None
    /\ max_price' = None
    /\ running' = TRUE
    /\ sent' = <<Frame("action", "subscribe")>>
    /\ ev' = Obs("restart", InPosition(Position), FALSE, None, "none")
    /\ UNCHANGED <<paper_mode, entered_at, nchanges, nlate, nticks, fold>>

\* a tick of a feed whose timestamps never go back
Tick == Feed(OrderedTimes, MaxCandles, FALSE)

\* the same tick, and a tick stamped before its predecessor, of a feed that
\* delivers out of order
OrderedTick == Feed(OrderedTimes, MaxCandles + 1, TRUE)

LateTick == Feed(LateTimes, MaxCandles + 1, TRUE)

\* lines 141-147
Init ==
    /\ current_candle_start = None
    /\ candle_data = <<>>
    /\ completed_candles = <<>>
    /\ traded_candle = None
    /\ bought_option_id = None
    /\ entry_price = None
    /\ sl_price = None
    /\ max_price = None
    /\ paper_mode \in BOOLEAN
    /\ ev = Obs("init", FALSE, FALSE, None, "none")
    /\ entered_at = {}
    /\ nchanges = 0
    /\ nlate = 0
    /\ running = TRUE
    /\ sent = <<Frame("action", "subscribe")>>
    /\ nticks = 0
    /\ fold = [open |-> NoCandle, closed |-> NoCandle]

Next == Tick

Spec == Init /\ [][Next]_vars

NextLate == OrderedTick \/ LateTick

SpecLate == Init /\ [][NextLate]_vars

\* lines 206-209 for one spot price: the strike handed to find_deep_itm_ce
PickStrike ==
    \E spot_price \in SpotPrices :
        /\ running
        /\ ev' = [Obs("strike", InPosition(Position), FALSE,
                      DeepItmStrike(spot_price), "none")
                     EXCEPT !.spot = spot_price]
        /\ UNCHANGED <<current_candle_start, candle_data, completed_candles,
                       traded_candle, bought_option_id, entry_price, sl_price,
                       max_price, paper_mode, entered_at, nchanges, nlate,
                       running, sent, nticks, fold>>

NextStrike == PickStrike

SpecStrike == Init /\ [][NextStrike]_vars

NextFeed == Tick \/ OnMessage \/ Disconnect \/ Restart

SpecFeed == Init /\ [][NextFeed]_vars

NextAgg == AggTick \/ AggLateTick

SpecAgg == Init /\ [][NextAgg]_vars

----------------------------------------------------------------------------
\* Properties

\* the entry part of the last tick reached the option lookup
Attempted == ev.path \in {"nooption", "buyfailed", "entered"}

\* the entry part of the last tick failed
FailedEntry == ev.path \in {"nooption", "buyfailed"}

Held == bought_option_id # None

\* C1: an entry is made only when no position is held, so the fields of a
\* held position are never overwritten by a new entry.
C1_EntryOnlyWhenFlat == ~(ev.path = "entered" /\ ev.held)

\* C2: when the stop is hit and the sell order raises, the position is still
\* held after the tick.
C2_FailedSellKeepsPosition ==
    ev.mgmt = "sellfailed" =>
        /\ bought_option_id # None
        /\ entry_price # None
        /\ sl_price # None
        /\ max_price # None

\* C3: on every tick on which a position is held (held when the tick came, or
\* entered on it), the option's price is fetched and checked against the stop.
C3_StopCheckedEveryTick == (ev.held \/ ev.path = "entered") => ev.mgmt # "none"

\* C4: no entry is made on a candle start timestamp on which an entry was
\* made before.
C4_OneEntryPerCandleStart == ~(ev.path = "entered" /\ ev.again)

\* C5: while a position is held from one tick to the next, sl_price and
\* max_price do not decrease.
C5_StopPeakNonDecreasing ==
    [][(bought_option_id # None /\ bought_option_id' # None)
          => (sl_price' >= sl_price /\ max_price' >= max_price)]_vars

\* C6: whenever a position with a positive entry price is held, sl_price is
\* at most max_price.
C6_StopAtMostPeak == (Held /\ entry_price > 0) => sl_price <= max_price

\* a held position whose stop was ratcheted above the entry stop
C6_Ratcheted == Held /\ max_price > entry_price /\ sl_price > StopAt(entry_price)

\* C7: a tick whose entry fails (option not found, or buy raised) leaves the
\* traded-candle marker and the four position fields as they were, and the
\* next tick with the same closed candles attempts the entry again.
C7_FailedEntryRetryable ==
    [][/\ FailedEntry' =>
            UNCHANGED <<traded_candle, bought_option_id, entry_price,
                        sl_price, max_price>>
       /\ (FailedEntry /\ completed_candles' = completed_candles) => Attempted']_vars

\* an entry made flat on the second tick of the open candle: the closed
\* candles, and so the signal, were the same on the first tick, which
\* therefore attempted the entry and failed
C7_RetrySucceeded ==
    /\ ev.path = "entered"
    /\ ~ev.held
    /\ Len(candle_data) = 2

\* C8: while fewer than 21 candles have closed no option is looked up, no
\* buy is placed and no position exists.
C8_ColdStartAbstains ==
    Len(completed_candles) < MinCandles =>
        /\ ~Attempted
        /\ ev.strike = None
        /\ ~Held
        /\ traded_candle = None

\* 20 candles closed and one open: candles_df has 21 rows and the crossover
\* condition is evaluated
C8_TwentyClosedEvaluated ==
    Len(completed_candles) = MinCandles - 1 /\ ev.path = "nosignal"

\* the means of the last FastWindow and SlowWindow closes of the completed
\* candles, computed directly and compared as fractions
DirectSignal ==
    LET n      == Len(completed_candles)
        closes == [i \in 1..n |-> completed_candles[i].close]
    IN SlowWindow * SumRange(closes, n - FastWindow + 1, n)
           >= FastWindow * SumRange(closes, n - SlowWindow + 1, n)

\* C9: with at least 21 candles closed, a tick that is not skipped for its
\* candle being traded already reaches the entry iff the mean of the last 10
\* closes of the closed candles is >= the mean of their last 21 closes.
C9_SignalIffDirectMeans ==
    Len(completed_candles) >= MinCandles =>
        (ev.path = "traded" \/ (Attempted <=> DirectSignal))

\* a tick on which the fast mean is below the slow mean
C9_NoSignal ==
    /\ Len(completed_candles) >= MinCandles
    /\ ev.path = "nosignal"
    /\ ~DirectSignal

\* C10: the candle starts (completed candles, then the open one) are
\* strictly increasing and each is a multiple of the interval.
C10_StartsIncreasingAligned ==
    LET df == CandlesDf(current_candle_start, candle_data, completed_candles) IN
    /\ \A i \in 1..Len(df) : df[i].timestamp % (IntervalMinutes * 60) = 0
    /\ \A i \in 1..(Len(df) - 1) : df[i].timestamp < df[i + 1].timestamp

\* the trailing stop part of the last tick compared an option price with the stop
Evaluated == ev.mgmt \in {"kept", "paperexit", "sold", "sellfailed"}

\* 20 times the stop that the step function of the claim gives for the
\* position ev.pre at the price ev.ltp
ExpectedStop20 ==
    IF ev.ltp > ev.pre.max
    THEN Max2(20 * ev.pre.sl, 19 * ev.ltp)
    ELSE 20 * ev.pre.sl

\* C13: an entry at e sets the peak to e and the stop to 0.95 e; a price q
\* above the peak moves the peak to q and the stop to max(stop, 0.95 q); the
\* exit is triggered iff q <= that stop.
C13_TrailingStopStep ==
    /\ (ev.path = "entered" /\ ev.pre # NoPosition) =>
            (ev.pre.max = ev.pre.entry /\ 20 * ev.pre.sl = 19 * ev.pre.entry)
    /\ Evaluated =>
            /\ (ev.mgmt # "kept") <=> (20 * ev.ltp <= ExpectedStop20)
            /\ ev.mgmt = "kept" =>
                   /\ max_price = Max2(ev.pre.max, ev.ltp)
                   /\ 20 * sl_price = ExpectedStop20
                   /\ entry_price = ev.pre.entry

\* entered at 40, ratcheted by a quote of 50 to a stop of 47.5, and sold at
\* a quote of 47
C13_Scenario ==
    /\ ev.pre.entry = Rupees(40)
    /\ ev.pre.max = Rupees(50)
    /\ 2 * ev.pre.sl = Rupees(95)
    /\ ev.ltp = Rupees(47)
    /\ ev.mgmt = "sold"

\* C19: a tick whose quote fetch raises leaves the position as the trailing
\* stop part found it (on a tick without entry: as it was before the tick),
\* leaves the traded-candle marker, submits no sell, and the next tick that
\* reaches the trailing stop part fetches the quote again.
C19_FailedQuoteChangesNothing ==
    [][/\ ev'.mgmt = "quotefailed" =>
            /\ Position' = ev'.pre
            /\ InPosition(Position')
            /\ ev'.path # "entered" =>
                   UNCHANGED <<traded_candle, bought_option_id, entry_price,
                               sl_price, max_price>>
       /\ (ev.mgmt = "quotefailed" /\ ev'.path \in {"nosignal", "entered"})
              => ev'.mgmt # "none"]_vars

\* the quote fetch raised on a tick without entry, a position being held
C19_QuoteFailedHolding ==
    ev.mgmt = "quotefailed" /\ ev.path = "nosignal" /\ ev.held /\ Held

\* C20: in paper mode, for a position entered above 20 rupees, every stop
\* evaluation sees a simulated price above the stop and exits nothing.
C20_PaperNeverExits ==
    (paper_mode /\ ev.pre # NoPosition /\ ev.pre.entry > Rupees(20)) =>
        /\ ev.mgmt = "kept"
        /\ ev.ltp > sl_price
        /\ Held

\* a paper position past its 2% rise: the simulated price is one rupee
\* under the peak
C20_PaperFalling ==
    paper_mode /\ ev.mgmt = "kept" /\ ev.ltp = ev.pre.max - Rupees(PaperStep)

\* C11: a tick leaves every completed candle as it is and where it is, and
\* appends at most one candle to them.
C11_ClosedCandlesImmutable ==
    [][/\ Len(completed_candles') \in {Len(completed_candles), Len(completed_candles) + 1}
       /\ SubSeq(completed_candles', 1, Len(completed_candles)) = completed_candles]_vars

\* two candles completed and a second tick in the open one
C11_TicksAfterClosing == Len(completed_candles) >= 2 /\ Len(candle_data) >= 2

\* C12: the open candle summarises the ticks it received since it was opened
\* (open of the first, highest, lowest, close of the last), and the last
\* completed candle has the values it had as the open candle after its last
\* tick.
C12_CandleSummarisesTicks ==
    /\ candle_data # <<>> => Candle(current_candle_start, candle_data) = fold.open
    /\ completed_candles # <<>> =>
           completed_candles[Len(completed_candles)] = fold.closed

\* four ticks in the first interval, from 100 by way of 99 to 102, closed by
\* the fifth tick as {100, 102, 99, 102}
C12_Scenario ==
    /\ nticks = 5
    /\ Len(candle_data) = 1
    /\ completed_candles =
           <<[timestamp |-> StartTime, open |-> Rupees(100), high |-> Rupees(102),
              low |-> Rupees(99), close |-> Rupees(102)]>>
    /\ fold.closed = completed_candles[1]

\* C18: the strike looked up is 200 below the largest multiple of 50 that is
\* not above the spot price.
C18_StrikeFloorsSpot ==
    ev.path = "strike" =>
        LET atm == ev.strike + Rupees(200) IN
        /\ atm % Rupees(50) = 0
        /\ atm <= ev.spot
        /\ ev.spot < atm + Rupees(50)

\* a spot of 19,837 gives the strike 19,600
C18_Scenario ==
    ev.path = "strike" /\ ev.spot = Rupees(19837) /\ ev.strike = Rupees(19600)

\* a frame that is not a control frame with a string message
Malformed(m) == m.json # "object" \/ m.message \in {"<absent>", "<number>", "<null>"}

\* C14: a malformed frame is skipped: candles, position and traded marker
\* stay as they were and the loop stays ready for the next frame.
C14_MalformedNeverAborts ==
    [][(ev'.path = "message" /\ Malformed(ev'.msg)) =>
          /\ running'
          /\ UNCHANGED <<current_candle_start, candle_data, completed_candles,
                         traded_candle, bought_option_id, entry_price, sl_price,
                         max_price>>]_vars

\* C15: a control frame whose message is "ping" is answered with a frame
\* whose message is "pong", and changes nothing else.
C15_PingAnswered ==
    [][(ev'.path = "message" /\ ev'.msg.json = "object" /\ ev'.msg.message = "ping") =>
          /\ \E i \in DOMAIN sent' : sent'[i] = Frame("message", "pong")
          /\ UNCHANGED <<current_candle_start, candle_data, completed_candles,
                         traded_candle, bought_option_id, entry_price, sl_price,
                         max_price>>]_vars

\* C16: after the connection closed or failed the ingestor is still running
\* (reconnecting), with its candles and position.
C16_SurvivesDisconnect ==
    [][ev'.path = "disconnect" =>
          /\ running'
          /\ UNCHANGED <<current_candle_start, candle_data, completed_candles,
                         traded_candle, bought_option_id, entry_price, sl_price,
                         max_price>>]_vars

\* C17: a process started again has the candles, the position and the traded
\* marker the process before it had last.
C17_RestartResumes ==
    [][ev'.path = "restart" =>
          UNCHANGED <<current_candle_start, candle_data, completed_candles,
                      traded_candle, bought_option_id, entry_price, sl_price,
                      max_price>>]_vars

====
